---- MODULE Spec2Model ----
(***************************************************************************)
(* FlutterOutlineProvider (src/src/views/flutter_outline_view.ts): the     *)
(* tree-data provider of the Flutter outline view, as a state machine.     *)
(* One action per event handler of the provider; the async getChildren is  *)
(* split at its `await getFixes(...)`.                                      *)
(***************************************************************************)
EXTENDS Integers, Sequences, FiniteSets, Bags, TLC

VARIABLES
    activeEditor,        \* this.activeEditor (null and undefined are both "null")
    flutterOutline,      \* this.flutterOutline (a notification, or "null")
    treeNodesByLine,     \* this.treeNodesByLine: line -> sequence of items
    updateTimeout,       \* this.updateTimeout: the last handle setTimeout returned
    timers,              \* host: the handles of the timers still pending
    showFlutterOutline,  \* host: last setContext value of dart-code:showFlutterOutline
    disposed,            \* dispose() has run: this.subscriptions are disposed
    calls,               \* getChildren calls suspended at `await getFixes` (a bag:
                         \* their promises resolve in any order)
    viewItems,           \* host: the expandable items the tree view got from getChildren
    owed,                \* history: accepted notifications since the last run of update()
                         \* (counted up to MaxOwed)
    notified,            \* history: the last accepted notification, or "null" once
                         \* activeEditor has been assigned after it
    last,                \* history: what the last handler run did (its inputs and outputs)
    labelCall            \* a call of FlutterWidgetItem.getLabel: its outline and its result

vars == <<activeEditor, flutterOutline, treeNodesByLine, updateTimeout, timers,
          showFlutterOutline, disposed, calls, viewItems, owed, notified, last,
          labelCall>>

----------------------------------------------------------------------------
(* Bounds of the model *)

\* timer handles the host can hand out
MaxTimers == 2
\* getChildren calls that may be suspended at the same time
MaxCalls == 1
\* items registered in treeNodesByLine, or about to be by a suspended call,
\* before another getChildren call is started
MaxRegistered == 2
\* accepted notifications counted between two runs of update()
MaxOwed == 2
\* cursor positions of selection events: lines 0..MaxLine, characters 0..MaxChar
MaxLine == 1
MaxChar == 3
\* characters in one string of an outline given to getLabel
MaxLabelLen == 1

----------------------------------------------------------------------------
(* The host's editors, documents and the analysis server's notifications *)

Null == "null"

Editors == {"E1", "E2", "E3"}

\* editor.document: fileName, what isAnalyzable(document) answers, and the length
\* of each of its lines (without the line break)
Document(e) ==
    CASE e = "E1" -> [fileName |-> "a.dart", analyzable |-> TRUE, lines |-> <<4, 4>>]
      [] e = "E2" -> [fileName |-> "b.dart", analyzable |-> TRUE, lines |-> <<2, 5>>]
      [] OTHER    -> [fileName |-> "notes.txt", analyzable |-> FALSE, lines |-> <<3>>]

\* as.FlutterOutline nodes: kind, offset, length, children
Outline(id) ==
    CASE id = "rA"  -> [kind |-> "DART_ELEMENT", offset |-> 0, length |-> 9, children |-> <<"wA">>]
      [] id = "wA"  -> [kind |-> "NEW_INSTANCE", offset |-> 1, length |-> 6, children |-> <<"wA2", "dA">>]
      [] id = "wA2" -> [kind |-> "NEW_INSTANCE", offset |-> 2, length |-> 2, children |-> <<>>]
      [] id = "dA"  -> [kind |-> "DART_ELEMENT", offset |-> 6, length |-> 2, children |-> <<>>]
      [] id = "rA0" -> [kind |-> "DART_ELEMENT", offset |-> 0, length |-> 9, children |-> <<>>]
      [] id = "rB"  -> [kind |-> "DART_ELEMENT", offset |-> 0, length |-> 8, children |-> <<"wB">>]
      [] OTHER      -> [kind |-> "NEW_INSTANCE", offset |-> 4, length |-> 2, children |-> <<>>]

OutlineIds == {"rA", "wA", "wA2", "dA", "rA0", "rB", "wB"}

\* as.FlutterOutlineNotification: file and outline
Notification(n) ==
    CASE n = "nA"  -> [file |-> "a.dart", outline |-> "rA"]
      [] n = "nA0" -> [file |-> "a.dart", outline |-> "rA0"]
      [] OTHER     -> [file |-> "b.dart", outline |-> "rB"]

Notifications == {"nA", "nA0", "nB"}

\* the nodes of the outline tree rooted at id
RECURSIVE NodesOf(_)
NodesOf(id) ==
    IF id = Null THEN {}
    ELSE {id} \cup UNION {NodesOf(Outline(id).children[i]) : i \in DOMAIN Outline(id).children}

----------------------------------------------------------------------------
(* vs.TextDocument.positionAt / offsetAt over the document's lines *)

RECURSIVE lineStart(_, _)
lineStart(lines, line) ==
    IF line = 0 THEN 0 ELSE lineStart(lines, line - 1) + lines[line] + 1

textLength(lines) == lineStart(lines, Len(lines)) - 1

Min(a, b) == IF a < b THEN a ELSE b
Max(a, b) == IF a > b THEN a ELSE b

positionAt(doc, offset) ==
    LET o == Max(0, Min(offset, textLength(doc.lines)))
        l == CHOOSE i \in 0..(Len(doc.lines) - 1) :
                /\ lineStart(doc.lines, i) <= o
                /\ \A j \in 0..(Len(doc.lines) - 1) : lineStart(doc.lines, j) <= o => j <= i
    IN  [line |-> l, character |-> o - lineStart(doc.lines, l)]

offsetAt(doc, pos) ==
    IF pos.line >= Len(doc.lines) THEN textLength(doc.lines)
    ELSE lineStart(doc.lines, pos.line) + Min(pos.character, doc.lines[pos.line + 1])

----------------------------------------------------------------------------
(* History record of one handler run *)

Log(op) ==
    [op |-> op, fired |-> 0, revealed |-> <<>>,
     forced |-> <<>>, created |-> <<>>, threw |-> FALSE]

NoItem == [outline |-> Null, parent |-> Null, editor |-> Null]


\* the lines a document position can name
Lines == UNION {0..(Len(Document(e).lines) - 1) : e \in Editors}

MaxDocLine == CHOOSE l \in Lines : \A k \in Lines : k <= l

Range(seq) == {seq[i] : i \in DOMAIN seq}

\* this.treeNodesByLine[line]; <<>> stands for an absent entry (the code never
\* stores an empty array: an entry is created only to be pushed to)
Entry(tbl, line) == IF line \in DOMAIN tbl THEN tbl[line] ELSE <<>>

EmptyTable == [l \in Lines |-> <<>>]

RECURSIVE Registered(_, _)
Registered(tbl, n) == IF n < 0 THEN 0 ELSE Len(Entry(tbl, n)) + Registered(tbl, n - 1)

TimerIds == 1..MaxTimers

----------------------------------------------------------------------------
(* The provider's methods *)

\* setTreeVisible(visible): executeCommand("setContext", DART_SHOW_FLUTTER_OUTLINE, visible)
setTreeVisible(visible) == IF visible THEN "visible" ELSE "hidden"

showTree == setTreeVisible(TRUE)
hideTree == setTreeVisible(FALSE)

\* mutant of clearTimeout: the pending timer is not cleared
clearTimeout_forgotten(handle) == timers

\* clearTimeout(handle): the pending timers left
clearTimeout(handle) == timers \ {handle}

\* mutant of updateHides: the test of the children is inverted
updateHides_invertedChildren ==
    \/ flutterOutline = Null
    \/ activeEditor = Null
    \/ Notification(flutterOutline).file # Document(activeEditor).fileName
    \/ Notification(flutterOutline).outline = Null
    \/ Len(Outline(Notification(flutterOutline).outline).children) # 0

\* mutant of updateHides: an outline without children does not hide the tree
updateHides_ignoresChildren ==
    \/ flutterOutline = Null
    \/ activeEditor = Null
    \/ Notification(flutterOutline).file # Document(activeEditor).fileName
    \/ Notification(flutterOutline).outline = Null

\* the condition of update() under which the tree is hidden
updateHides ==
    \/ flutterOutline = Null
    \/ activeEditor = Null
    \/ Notification(flutterOutline).file # Document(activeEditor).fileName
    \/ Notification(flutterOutline).outline = Null
    \/ Len(Outline(Notification(flutterOutline).outline).children) = 0

\* refresh(): this.onDidChangeTreeDataEmitter.fire(); the view drops the items
\* it holds and asks for the tree again
refresh(log) ==
    /\ last' = [log EXCEPT !.fired = @ + 1]
    /\ viewItems' = {}

\* mutant of update: the tree is shown whatever the stored outline is
update_alwaysShows(log) ==
    /\ showFlutterOutline' = showTree
    /\ refresh(log)

\* update(): hide the tree, or show it and refresh
update(log) ==
    IF updateHides
    THEN /\ showFlutterOutline' = hideTree
         /\ last' = log
         /\ UNCHANGED viewItems
    ELSE /\ showFlutterOutline' = showTree
         /\ refresh(log)

\* mutant of setTrackingFile: the stored outline is kept on a switch of editor
setTrackingFile_keepsOutline(editor, cur) ==
    IF editor # Null /\ Document(editor).analyzable
    THEN [cur EXCEPT !.activeEditor = editor,
                     !.forced = Append(@, Document(editor).fileName)]
    ELSE [cur EXCEPT !.show = hideTree,
                     !.activeEditor = Null]

\* mutant of setTrackingFile: the tree is hidden on every switch of editor
setTrackingFile_hidesFirst(editor, cur) ==
    IF editor # Null /\ Document(editor).analyzable
    THEN [cur EXCEPT !.show = hideTree,
                     !.activeEditor = editor,
                     !.flutterOutline = Null,
                     !.forced = Append(@, Document(editor).fileName)]
    ELSE [cur EXCEPT !.show = hideTree,
                     !.activeEditor = Null]

\* setTrackingFile(editor) on cur = [activeEditor, flutterOutline, show, forced]:
\* the values after the call (forced: the arguments of forceNotificationsFor)
setTrackingFile(editor, cur) ==
    IF editor # Null /\ Document(editor).analyzable
    THEN [cur EXCEPT !.activeEditor = editor,
                     !.flutterOutline = Null,
                     !.forced = Append(@, Document(editor).fileName)]
    ELSE [cur EXCEPT !.show = hideTree,
                     !.activeEditor = Null]

\* mutant of contains: the bounds of the range are not strict
contains_inclusive(o, offset) == o.offset <= offset /\ o.offset + o.length >= offset

\* the test highlightNodeAt makes of an item's outline o
contains(o, offset) == o.offset < offset /\ o.offset + o.length > offset

\* the first item of items that passes the test, as highlightNodeAt's loop finds it
RECURSIVE firstContaining(_, _)
firstContaining(items, offset) ==
    IF items = <<>> THEN <<>>
    ELSE LET o == Outline(Head(items).outline)
         IN  IF contains(o, offset)
             THEN <<Head(items)>>
             ELSE firstContaining(Tail(items), offset)

\* highlightNodeAt(pos): the items passed to treeView.reveal, and whether
\* this.activeEditor.document threw a TypeError
highlightNodeAt(pos) ==
    IF Entry(treeNodesByLine, pos.line) = <<>>
    THEN [revealed |-> <<>>, threw |-> FALSE]
    ELSE IF activeEditor = Null
    THEN [revealed |-> <<>>, threw |-> TRUE]
    ELSE [revealed |-> firstContaining(Entry(treeNodesByLine, pos.line),
                                       offsetAt(Document(activeEditor), pos)),
          threw |-> FALSE]

isWidget(outline) == outline.kind # "DART_ELEMENT"

\* new FlutterWidgetItem(element, c, fixes, editor)
FlutterWidgetItem(element, c, editor) ==
    [outline |-> c, parent |-> element.outline, editor |-> editor]

\* the check made after `await getFixes`, before the item is created;
\* isClosed: what editor.document.isClosed reads at that moment
stillUsable(editor, isClosed) == editor # Null /\ ~isClosed

\* this.treeNodesByLine[line].push(node), creating the entry when absent
register(tbl, line, node) == [tbl EXCEPT ![line] = Append(@, node)]

\* getChildren's loop over outline.children from call.idx on, run until the
\* next `await getFixes(editor, c)` of a widget child, the end of the loop or
\* a TypeError. haveFixes: the awaited fixes of the child at call.idx are in;
\* isClosed: what the document of the captured editor answers during this run.
\* (`await` of the plain [] of a child that is no widget resumes in a microtask,
\* before any host event, so the loop goes on within the same run.)
RECURSIVE childrenLoop(_, _, _, _)
childrenLoop(call, tbl, haveFixes, isClosed) ==
    LET kids == Outline(call.outline).children
    IN  IF call.idx > Len(kids)
        THEN [status |-> "done", call |-> call, tbl |-> tbl]
        ELSE LET c == kids[call.idx]
             IN  IF isWidget(Outline(c)) /\ ~haveFixes
                 THEN IF call.editor = Null
                      THEN [status |-> "threw", call |-> call, tbl |-> tbl]
                      ELSE [status |-> "suspended", call |-> call, tbl |-> tbl]
                 ELSE IF stillUsable(call.editor, isClosed)
                 THEN LET node == FlutterWidgetItem(call.element, c, call.editor)
                      IN  IF activeEditor = Null
                          THEN [status |-> "threw",
                                call |-> [call EXCEPT !.children = Append(@, node)],
                                tbl |-> tbl]
                          ELSE childrenLoop(
                                 [call EXCEPT !.idx = @ + 1, !.children = Append(@, node)],
                                 register(tbl, positionAt(Document(activeEditor), Outline(c).offset).line, node),
                                 FALSE, isClosed)
                 ELSE childrenLoop([call EXCEPT !.idx = @ + 1], tbl, FALSE, isClosed)

\* the outline getChildren(element) lists the children of
outlineOf(element) ==
    IF element # NoItem THEN element.outline
    ELSE IF flutterOutline # Null THEN Notification(flutterOutline).outline
    ELSE Null

\* getChildren(element) up to its first suspension; a call keeps, besides its
\* locals, whether it has seen the document of its editor closed
getChildren(element, isClosed) ==
    LET outline == outlineOf(element)
        call == [element |-> element, outline |-> outline, editor |-> activeEditor,
                 idx |-> 1, children |-> <<>>, sawClosed |-> isClosed]
    IN  IF outline # Null /\ Outline(outline).length # 0
        THEN childrenLoop(call, treeNodesByLine, FALSE, isClosed)
        ELSE [status |-> "done", call |-> call, tbl |-> treeNodesByLine]

\* the state after a run of getChildren that ended with result r; rest: the
\* other suspended calls, before: the items the call had made before this run
settle(r, rest, log, before) ==
    /\ treeNodesByLine' = r.tbl
    /\ calls' = IF r.status = "suspended" THEN rest (+) SetToBag({r.call}) ELSE rest
    /\ viewItems' = IF r.status = "done" THEN viewItems \cup {it \in Range(r.call.children) : Outline(it.outline).children # <<>>}
                    ELSE viewItems
    /\ last' = [log EXCEPT !.threw = (r.status = "threw"),
                           !.created = SubSeq(r.call.children, before + 1, Len(r.call.children))]

----------------------------------------------------------------------------
(* FlutterWidgetItem.getLabel. A string is the sequence of its characters; *)
(* an optional string that is missing is the empty string (both are falsy) *)
(* and outline.dartElement is <<>> when missing, <<element>> otherwise.    *)

\* the strings of at most MaxLabelLen characters made of c and the space
Strings(c) == UNION {[1..k -> {c, " "}] : k \in 0..MaxLabelLen}

Elements ==
    {[name |-> n, typeParameters |-> tp, parameters |-> ps, returnType |-> rt] :
        n \in Strings("n"), tp \in {<<>>, <<"<", "T", ">">>},
        ps \in {<<>>, <<"(", ")">>}, rt \in Strings("r")}

\* the outlines getLabel is called with
LabelOutlines ==
    [dartElement : {<<>>} \cup {<<e>> : e \in Elements},
     variableName : Strings("v"), className : Strings("c"), label : Strings("l")]

\* no call of getLabel yet
NoLabelCall ==
    [outline |-> [dartElement |-> <<>>, variableName |-> <<>>,
                  className |-> <<>>, label |-> <<>>],
     done |-> FALSE, result |-> <<>>]

\* " → "
Arrow == <<" ", "→", " ">>

RECURSIVE trimStart(_)
trimStart(s) == IF s # <<>> /\ Head(s) = " " THEN trimStart(Tail(s)) ELSE s

RECURSIVE trimEnd(_)
trimEnd(s) ==
    IF s # <<>> /\ s[Len(s)] = " " THEN trimEnd(SubSeq(s, 1, Len(s) - 1)) ELSE s

\* String.prototype.trim
trim(s) == trimEnd(trimStart(s))

\* the label after the `if (outline.dartElement)` block
dartElementLabel(outline) ==
    IF outline.dartElement # <<>>
    THEN LET e == outline.dartElement[1]
             l1 == <<" ">> \o e.name
             l2 == IF e.typeParameters # <<>> THEN l1 \o e.typeParameters ELSE l1
             l3 == IF e.parameters # <<>> THEN l2 \o e.parameters ELSE l2
         IN  IF e.returnType # <<>> THEN l3 \o Arrow \o e.returnType ELSE l3
    ELSE <<>>

\* mutant of getLabel: className is appended before variableName
getLabel_classNameFirst(outline) ==
    LET l1 == dartElementLabel(outline)
        l2 == IF outline.className # <<>> THEN l1 \o <<" ">> \o outline.className ELSE l1
        l3 == IF outline.variableName # <<>>
              THEN l2 \o <<" ">> \o outline.variableName ELSE l2
        l4 == IF outline.label # <<>> THEN l3 \o <<" ">> \o outline.label ELSE l3
    IN  trim(l4)

\* FlutterWidgetItem.getLabel(outline)
getLabel(outline) ==
    LET l1 == dartElementLabel(outline)
        l2 == IF outline.variableName # <<>>
              THEN l1 \o <<" ">> \o outline.variableName ELSE l1
        l3 == IF outline.className # <<>> THEN l2 \o <<" ">> \o outline.className ELSE l2
        l4 == IF outline.label # <<>> THEN l3 \o <<" ">> \o outline.label ELSE l3
    IN  trim(l4)

----------------------------------------------------------------------------
(* The state after the constructor, and the handlers as actions *)

Positions == {[line |-> l, character |-> c] : l \in 0..MaxLine, c \in 0..MaxChar}

\* new FlutterOutlineProvider(analyzer), with vs.window.activeTextEditor = e
Constructed(e) ==
    LET cur == [activeEditor |-> Null, flutterOutline |-> Null,
                show |-> "unset", forced |-> <<>>]
        new == IF e # Null THEN setTrackingFile(e, cur) ELSE cur
    IN  /\ activeEditor = new.activeEditor
        /\ flutterOutline = new.flutterOutline
        /\ showFlutterOutline = new.show
        /\ last = [Log("constructor") EXCEPT !.forced = new.forced]
        /\ treeNodesByLine = EmptyTable
        /\ updateTimeout = 0
        /\ timers = {}
        /\ disposed = FALSE
        /\ calls = EmptyBag
        /\ viewItems = {}
        /\ owed = 0
        /\ notified = Null

\* the provider is constructed and no item has been made
Init ==
    /\ \E e \in Editors \cup {Null} : Constructed(e)
    /\ labelCall = NoLabelCall

\* mutant of accepts: the file of the notification is not compared
accepts_anyFile(n) == activeEditor # Null

\* the test the notification callback makes before it takes n
accepts(n) == activeEditor # Null /\ Notification(n).file = Document(activeEditor).fileName

\* the callback given to analyzer.registerForFlutterOutline
OnFlutterOutline(n) ==
    IF accepts(n)
    THEN /\ TimerIds \ clearTimeout(updateTimeout) # {}
         /\ flutterOutline' = n
         /\ treeNodesByLine' = EmptyTable
         /\ LET handle == CHOOSE h \in TimerIds \ clearTimeout(updateTimeout) :
                              \A g \in TimerIds \ clearTimeout(updateTimeout) : h <= g
            IN  /\ timers' = clearTimeout(updateTimeout) \cup {handle}
                /\ updateTimeout' = handle
         /\ owed' = Min(owed + 1, MaxOwed)
         /\ notified' = n
         /\ last' = Log("notification")
         /\ UNCHANGED <<labelCall, activeEditor, showFlutterOutline, disposed, calls, viewItems>>
    ELSE /\ last' = Log("notification")
         /\ UNCHANGED <<labelCall, activeEditor, flutterOutline, treeNodesByLine, updateTimeout, timers,
                        showFlutterOutline, disposed, calls, viewItems, owed, notified>>

\* the timer set by setTimeout(() => this.update(), 200) fires
OnUpdateTimeout(handle) ==
    /\ handle \in timers
    /\ timers' = timers \ {handle}
    /\ update(Log("update"))
    /\ owed' = 0
    /\ UNCHANGED <<labelCall, activeEditor, flutterOutline, treeNodesByLine, updateTimeout,
                   disposed, calls, notified>>

\* vs.window.onDidChangeActiveTextEditor((e) => this.setTrackingFile(e))
OnDidChangeActiveTextEditor(e) ==
    /\ ~disposed
    /\ LET new == setTrackingFile(e, [activeEditor |-> activeEditor,
                                      flutterOutline |-> flutterOutline,
                                      show |-> showFlutterOutline, forced |-> <<>>])
       IN  /\ activeEditor' = new.activeEditor
           /\ flutterOutline' = new.flutterOutline
           /\ showFlutterOutline' = new.show
           /\ last' = [Log("activeEditor") EXCEPT !.forced = new.forced]
    /\ notified' = Null
    /\ UNCHANGED <<labelCall, treeNodesByLine, updateTimeout, timers, disposed, calls,
                   viewItems, owed>>

\* vs.window.onDidChangeTextEditorSelection; sel: the starts of e.selections
\* (the handler does not read e.textEditor)
OnDidChangeTextEditorSelection(sel) ==
    /\ ~disposed
    /\ LET r == IF Len(sel) # 0 THEN highlightNodeAt(sel[1])
                ELSE [revealed |-> <<>>, threw |-> FALSE]
       IN  last' = [Log("selection") EXCEPT
                                                  !.revealed = r.revealed,
                                                  !.threw = r.threw]
    /\ UNCHANGED <<labelCall, activeEditor, flutterOutline, treeNodesByLine, updateTimeout, timers,
                   showFlutterOutline, disposed, calls, viewItems, owed, notified>>

\* the tree view calls getChildren(element); it runs to its first await
\* getFixes. isClosed: whether the document of the active editor is closed by
\* now (the host closes documents on its own)
GetChildren(element, isClosed) ==
    /\ BagCardinality(calls) < MaxCalls
    /\ Registered(treeNodesByLine, MaxDocLine) + BagCardinality(calls) < MaxRegistered
    /\ isClosed => activeEditor # Null
    /\ settle(getChildren(element, isClosed), calls, Log("getChildren"), 0)
    /\ UNCHANGED <<labelCall, activeEditor, flutterOutline, updateTimeout, timers,
                   showFlutterOutline, disposed, owed, notified>>

\* the promise of getFixes resolves and the suspended getChildren call goes
\* on. isClosed: whether the document of its editor is closed by now (a closed
\* document stays closed)
GetFixesResolved(call, isClosed) ==
    /\ BagIn(call, calls)
    /\ call.sawClosed => isClosed
    /\ settle(childrenLoop([call EXCEPT !.sawClosed = isClosed],
                            treeNodesByLine, TRUE, isClosed),
              calls (-) SetToBag({call}), Log("getFixes"), Len(call.children))
    /\ UNCHANGED <<labelCall, activeEditor, flutterOutline, updateTimeout, timers,
                   showFlutterOutline, disposed, owed, notified>>

\* dispose()
Dispose ==
    /\ ~disposed
    /\ activeEditor' = Null
    /\ disposed' = TRUE
    /\ last' = Log("dispose")
    /\ notified' = Null
    /\ UNCHANGED <<labelCall, flutterOutline, treeNodesByLine, updateTimeout, timers,
                   showFlutterOutline, calls, viewItems, owed>>

Next ==
    \/ \E n \in Notifications : OnFlutterOutline(n)
    \/ \E h \in TimerIds : OnUpdateTimeout(h)
    \/ \E e \in Editors \cup {Null} : OnDidChangeActiveTextEditor(e)
    \/ \E sel \in {<<>>} \cup {<<p>> : p \in Positions} : OnDidChangeTextEditorSelection(sel)
    \/ \E element \in {NoItem} \cup viewItems, isClosed \in BOOLEAN :
           GetChildren(element, isClosed)
    \/ \E call \in BagToSet(calls), isClosed \in BOOLEAN : GetFixesResolved(call, isClosed)
    \/ Dispose

Spec == Init /\ [][Next]_vars

\* a timer that stays pending fires: the host runs the callback of setTimeout
\* once its 200 ms are over
FairSpec == Spec /\ WF_vars(\E h \in TimerIds : OnUpdateTimeout(h))

\* super(FlutterWidgetItem.getLabel(outline), ...): the label of the new item
\* is computed from its outline
GetLabel ==
    /\ ~labelCall.done
    /\ labelCall' = [labelCall EXCEPT !.done = TRUE,
                                      !.result = getLabel(labelCall.outline)]
    /\ UNCHANGED <<activeEditor, flutterOutline, treeNodesByLine, updateTimeout, timers,
                   showFlutterOutline, disposed, calls, viewItems, owed, notified, last>>

\* an item is about to be made for one of LabelOutlines
LabelInit ==
    /\ Constructed(Null)
    /\ \E o \in LabelOutlines : labelCall = [outline |-> o, done |-> FALSE, result |-> <<>>]

LabelNext == GetLabel

\* getLabel over every outline of LabelOutlines
LabelSpec == LabelInit /\ [][LabelNext]_vars

----------------------------------------------------------------------------
(* Claims *)

SelectionInputs == {<<>>} \cup {<<p>> : p \in Positions}

\* C1: whenever activeEditor is non-null, the stored flutterOutline is null
\* or a notification of the active editor's file.
C1_OutlineOfTrackedFile ==
    activeEditor # Null =>
        \/ flutterOutline = Null
        \/ Notification(flutterOutline).file = Document(activeEditor).fileName

\* C1 witness: the notification of the tracked file has just been stored.
C1_Witness ==
    /\ activeEditor = "E2"
    /\ flutterOutline = "nB"
    /\ last.op = "notification"

\* C2: at most one update timer is pending, it is the one updateTimeout names,
\* and one is pending exactly when accepted notifications have not yet been
\* followed by a run of update(): a run of accepted notifications leaves one
\* timer, set by the last of them, and so gets one run of update().
C2_Debounced ==
    /\ Cardinality(timers) <= 1
    /\ timers # {} => timers = {updateTimeout}
    /\ owed > 0 <=> timers # {}

\* C2 witness: several accepted notifications in a row, one timer pending.
C2_Witness ==
    /\ owed >= 2
    /\ Cardinality(timers) = 1
    /\ last.op = "notification"

\* what C3 says of the items revealed on a selection change sel
RevealedAsClaimed(sel, revealed) ==
    /\ Len(revealed) <= 1
    /\ (sel = <<>> \/ Entry(treeNodesByLine, sel[1].line) = <<>>) => revealed = <<>>
    /\ revealed # <<>> =>
          LET items == Entry(treeNodesByLine, sel[1].line)
              offset == offsetAt(Document(activeEditor), sel[1])
              inside(it) == /\ Outline(it.outline).offset < offset
                            /\ offset < Outline(it.outline).offset + Outline(it.outline).length
          IN  \E i \in DOMAIN items :
                  /\ items[i] = revealed[1]
                  /\ inside(items[i])
                  /\ \A j \in 1..(i - 1) : ~inside(items[j])

\* C3: a selection change reveals at most one item; a revealed item is
\* registered under the line of the first selection's start, its outline range
\* strictly contains the cursor offset, and it is the first such item of the
\* line; with no selection or no item on the line nothing is revealed.
\* (A run that reveals nothing meets all of this, so the runs that reveal
\* are the ones looked at.)
C3_RevealsFirstContaining ==
    [][(last'.op = "selection" /\ last'.revealed # <<>>) =>
          \A sel \in SelectionInputs :
              OnDidChangeTextEditorSelection(sel) => RevealedAsClaimed(sel, last'.revealed)]_vars

\* C3 witness: an item was revealed on a line holding two registered items, the
\* second one nested in the first.
C3_Witness ==
    /\ last.op = "selection"
    /\ last.revealed # <<>>
    /\ last.revealed[1].outline = "wA"
    /\ Len(Entry(treeNodesByLine, 0)) >= 2
    /\ Entry(treeNodesByLine, 0)[2].outline = "wA2"

\* the items registered in treeNodesByLine, as (line, index) places
RegisteredPlaces ==
    UNION {{<<l, i>> : i \in DOMAIN treeNodesByLine[l]} : l \in DOMAIN treeNodesByLine}

\* C4: an item made after an awaited getFixes is made only if the editor the
\* getChildren call captured is still the provider's active editor.
C4_StillActiveEditor ==
    last.op = "getFixes" =>
        \A i \in DOMAIN last.created : last.created[i].editor = activeEditor

\* there is an active editor and a stored outline of its file with a child
HasOutlineToShow ==
    /\ activeEditor # Null
    /\ flutterOutline # Null
    /\ Notification(flutterOutline).file = Document(activeEditor).fileName
    /\ Len(Outline(Notification(flutterOutline).outline).children) > 0

\* C5 as claimed: in every state in which the tree is visible the provider
\* has an active editor and a stored outline of that editor's file with at
\* least one child.
C5_VisibleHasOutline == showFlutterOutline = "visible" => HasOutlineToShow

\* C5 as amended: whenever the tree is made visible, or a run of update()
\* leaves it visible, the provider has at that moment an active editor and a
\* stored outline of that editor's file with at least one child.
C5_VisibleWhenShown ==
    [][(/\ showFlutterOutline' = "visible"
        /\ showFlutterOutline # "visible" \/ last'.op = "update")
       => HasOutlineToShow']_vars

\* C5 witness: a run of update() has left the tree visible for the second editor.
C5_Witness ==
    /\ showFlutterOutline = "visible"
    /\ last.op = "update"
    /\ activeEditor = "E2"
    /\ flutterOutline = "nB"

\* C6: no handler run dereferences a null editor (none ends in the TypeError
\* of reading .document of null).
C6_NoNullDereference == ~last.threw

\* C7: every registered item was built from a node of the stored outline for
\* the active editor, and no outline node is registered more than once.
C7_RegisteredFromCurrentOutline ==
    /\ \A p \in RegisteredPlaces :
          LET item == treeNodesByLine[p[1]][p[2]]
          IN  /\ flutterOutline # Null
              /\ item.outline \in NodesOf(Notification(flutterOutline).outline)
              /\ item.editor = activeEditor
    /\ \A p, q \in RegisteredPlaces :
          treeNodesByLine[p[1]][p[2]].outline = treeNodesByLine[q[1]][q[2]].outline => p = q

\* C8: a run of update() shows the tree and fires one tree-change event when
\* there is a stored outline with a child for the active editor's file, and
\* otherwise hides the tree and fires none; it leaves activeEditor,
\* flutterOutline and treeNodesByLine alone.
C8_UpdateShowsOrHides ==
    [][last'.op = "update" =>
          /\ IF /\ flutterOutline # Null
                /\ activeEditor # Null
                /\ Notification(flutterOutline).file = Document(activeEditor).fileName
                /\ Len(Outline(Notification(flutterOutline).outline).children) > 0
             THEN showFlutterOutline' = "visible" /\ last'.fired = 1
             ELSE showFlutterOutline' = "hidden" /\ last'.fired = 0
          /\ UNCHANGED <<activeEditor, flutterOutline, treeNodesByLine>>]_vars

\* C8 witness: update() has shown the tree and fired the event.
C8_Witness ==
    /\ last.op = "update"
    /\ last.fired = 1
    /\ showFlutterOutline = "visible"

\* C9: a notification for another file than the active editor's, or one that
\* comes while there is no active editor, changes nothing: not the outline,
\* the registered items, the timer or the visibility, and no update() is owed.
C9_ForeignNotificationIgnored ==
    [][\A n \in Notifications :
          (/\ last'.op = "notification"
           /\ \/ activeEditor = Null
              \/ Notification(n).file # Document(activeEditor).fileName
           /\ OnFlutterOutline(n))
          => UNCHANGED <<flutterOutline, treeNodesByLine, updateTimeout, timers,
                         showFlutterOutline, owed>>]_vars

\* C9 witness: a notification came and left no timer, while an outline with
\* registered items is shown for the active editor.
C9_Witness ==
    /\ last.op = "notification"
    /\ timers = {}
    /\ activeEditor = "E1"
    /\ flutterOutline = "nA"
    /\ showFlutterOutline = "visible"
    /\ RegisteredPlaces # {}

\* C10: a change to an analyzable editor makes it the active editor, forgets
\* the outline and forces notifications for its file once, visibility as it
\* was; any other change hides the tree and forgets the active editor, the
\* outline kept and nothing forced; registered items and timer stay in both.
C10_EditorChange ==
    [][\A e \in Editors \cup {Null} :
          (last'.op = "activeEditor" /\ OnDidChangeActiveTextEditor(e)) =>
              /\ IF e # Null /\ Document(e).analyzable
                 THEN /\ activeEditor' = e
                      /\ flutterOutline' = Null
                      /\ last'.forced = <<Document(e).fileName>>
                      /\ UNCHANGED showFlutterOutline
                 ELSE /\ showFlutterOutline' = "hidden"
                      /\ activeEditor' = Null
                      /\ last'.forced = <<>>
                      /\ UNCHANGED flutterOutline
              /\ UNCHANGED <<treeNodesByLine, updateTimeout, timers>>]_vars

\* C10 witness: after a change to an analyzable editor the tree is still
\* visible, the items of the former editor are still registered and a timer
\* is still pending.
C10_Witness ==
    /\ last.op = "activeEditor"
    /\ last.forced # <<>>
    /\ showFlutterOutline = "visible"
    /\ RegisteredPlaces # {}
    /\ timers # {}

\* C11: with the update timer firing when it stays pending, every accepted
\* notification is followed by a run of update(); and when that run comes with
\* activeEditor not assigned since the last accepted notification, whose
\* outline has a child, it makes the tree visible and fires one tree-change
\* event.
C11_NotificationLeadsToUpdate ==
    /\ (owed > 0) ~> (owed = 0 /\ last.op = "update")
    /\ [][(/\ last'.op = "update"
           /\ notified # Null
           /\ Len(Outline(Notification(notified).outline).children) > 0)
          => (showFlutterOutline' = "visible" /\ last'.fired = 1)]_vars

\* C11 witness: update() has run after the accepted notification nA, no
\* assignment of activeEditor in between, and has shown the tree.
C11_Witness ==
    /\ last.op = "update"
    /\ owed = 0
    /\ notified = "nA"
    /\ showFlutterOutline = "visible"
    /\ last.fired = 1

\* the parts of an outline that are present, in the order dartElement,
\* variableName, className, label; the dartElement part is the name with
\* typeParameters and parameters right after it, then " → " and returnType
C12_Parts(o) ==
    LET d == o.dartElement
        element == IF d = <<>> THEN <<>>
                   ELSE <<d[1].name \o d[1].typeParameters \o d[1].parameters
                          \o (IF d[1].returnType # <<>>
                              THEN <<" ", "→", " ">> \o d[1].returnType ELSE <<>>)>>
    IN  element \o SelectSeq(<<o.variableName, o.className, o.label>>,
                             LAMBDA part : part # <<>>)

\* the parts one after the other, each with a single space before it
RECURSIVE C12_Spaced(_)
C12_Spaced(parts) ==
    IF parts = <<>> THEN <<>> ELSE <<" ">> \o Head(parts) \o C12_Spaced(Tail(parts))

\* C12: the label getLabel returns for an outline is its present parts in the
\* order dartElement (name, typeParameters, parameters, " → " returnType),
\* variableName, className, label, each with a single space before it, without
\* the whitespace at the start and at the end; with no part it is empty.
C12_LabelOfParts ==
    labelCall.done =>
        LET whole == C12_Spaced(C12_Parts(labelCall.outline))
            result == labelCall.result
        IN  /\ \E i \in 1..(Len(whole) + 1), j \in 0..Len(whole) :
                   /\ result = SubSeq(whole, i, j)
                   /\ \A k \in 1..(i - 1) : whole[k] = " "
                   /\ \A k \in (j + 1)..Len(whole) : whole[k] = " "
            /\ result # <<>> => (result[1] # " " /\ result[Len(result)] # " ")
            /\ C12_Parts(labelCall.outline) = <<>> => result = <<>>

\* C12 witness: an outline with every part, whose label part is a space, has
\* got the label "n<T>() → r v c".
C12_Witness ==
    /\ labelCall.done
    /\ labelCall.outline =
           [dartElement |-> <<[name |-> <<"n">>, typeParameters |-> <<"<", "T", ">">>,
                               parameters |-> <<"(", ")">>, returnType |-> <<"r">>]>>,
            variableName |-> <<"v">>, className |-> <<"c">>, label |-> <<" ">>]
    /\ labelCall.result = <<"n", "<", "T", ">", "(", ")", " ", "→", " ", "r",
                            " ", "v", " ", "c">>

\* an outline with no part has got the empty label
C12_WitnessEmpty ==
    /\ labelCall.done
    /\ labelCall.outline = NoLabelCall.outline
    /\ labelCall.result = <<>>

====
